---- MODULE Spec2Model ----
(***************************************************************************)
(* The notification pipeline of go-telegram-notifications-bot:             *)
(*   internal/scheduler.go  FeedScheduler.fetchAndProcessFeed (the poll)   *)
(*   internal/db.go         DBManager (the feed_items table, the ledger)   *)
(*   internal/telegram.go   TelegramService.SendFeedItemToTelegram         *)
(*   internal/utils.go      SendTelegramMessage (the network send)         *)
(*   internal/scheduler.go  FeedScheduler.Start, Stop, the ticker          *)
(*                          goroutines and the cleanup routine             *)
(*   unnamed/part_002       ConfigPostHandler, processFeedsFromForm        *)
(* A poll is run by a task (the caller of Start or a ticker goroutine) and *)
(* is modelled statement by statement, so that polls of several tasks      *)
(* interleave as goroutines do.                                            *)
(***************************************************************************)
EXTENDS Integers, Sequences, FiniteSets, TLC

\* ------------------------------------------------------------------ bounds

\* Longest feed document the parser returns.
MaxItems == 2

\* Longest outage of the outbound endpoint, in consecutive failing requests.
MaxFails == 5

\* Last instant of the wall clock, in seconds.
MaxClock == 2

\* Last day of the calendar.
MaxDay == 3

\* spec 4.2 step 3: "up to a fixed maximum of 5 total attempts".
MaxAttempts == 5

\* README line 155: "ensuring at least 1 second between messages".
MinInterval == 1

Urls == {"A", "B"}

\* Item.GUID values; the empty string is a GUID like any other (guid TEXT NOT NULL).
Guids == {"", "g1"}

\* A third GUID, for documents of three distinct items.
MoreGuids == Guids \cup {"g2"}

None == "none"

\* ------------------------------------------------------------ configuration

\* models.go Feed, the fields the pipeline reads.
FeedWith(url, interval, retention, token, chatId) ==
    [FeedUrl |-> url, FeedFetchIntervalMinutes |-> interval,
     FeedRetentionDays |-> retention, TelegramApiToken |-> token,
     TelegramChatId |-> chatId]

\* A feed with the interval and the retention the form defaults to.
Feed(url, token, chatId) == FeedWith(url, 30, 30, token, chatId)

\* Feed{}, the zero value.
NoFeed == FeedWith("", 0, 0, "", 0)

\* Config.Feeds with complete credentials.
CompleteConfig == << Feed("A", "tok", 1), Feed("B", "tok", 1) >>

\* Config.Feeds values the system may hold: complete credentials, and a feed
\* saved from the form without a token.
ConfigSet == { CompleteConfig, << Feed("A", "tok", 1), Feed("B", "", 1) >> }

RECURSIVE SeqsUpTo(_, _)
\* Every sequence over S of length at most n.
SeqsUpTo(S, n) ==
    IF n = 0 THEN { << >> }
    ELSE LET shorter == SeqsUpTo(S, n - 1)
         IN  shorter \cup { Append(s, x) : s \in shorter, x \in S }

\* feedData.Items as gofeed returns them (newest first), by GUID.
Docs == SeqsUpTo(Guids, MaxItems)

\* Documents of at most one item.
ShortDocs == SeqsUpTo(Guids, 1)

\* Documents of up to MaxItems + 1 items with three GUIDs to choose from.
LongDocs == SeqsUpTo(MoreGuids, MaxItems + 1)

\* ------------------------------------------------------------------- state

VARIABLES
    config,         \* fs.configManager.Config.Feeds
    upstream,       \* the document each feed URL serves
    ledger,         \* rows of table feed_items
    dbDown,         \* the database fails every statement while TRUE
    failsLeft,      \* requests the endpoint will still fail before it recovers
    clock,          \* wall clock, seconds
    lastAttemptAt,  \* start time of the latest http.Post, -1 before the first
    pc,             \* per task: position in fetchAndProcessFeed
    items,          \* per task: feedData.Items
    iter,           \* per task: number of the loop iteration it is in, from 1
    resp,           \* per task: what the http.Post for the item came back with
    tries,          \* per task: http.Post calls made for the item
    plan,           \* per task: failsLeft when the sender was invoked for the item
    cycle,          \* per task: the items (by index) the sender was invoked for in this poll
    cycleOk,        \* per task: no lookup, send or write of this poll failed so far
    afterClean,     \* per task: this poll follows a poll of its feed in which nothing failed
    clean,          \* per feed URL: the last finished poll had no failure
    at,             \* per task: where it is outside fetchAndProcessFeed
    feed,           \* per task: the feed it polls (parameter f, loop variable feed)
    todo,           \* per caller of Start: the feeds its range loop has still to visit
    mu,             \* fs.mu: the task holding it, "" when free
    cancelled,      \* fs.ctx is done
    tickers,        \* fs.tickers: per feed URL the goroutine whose ticker is registered, "" for none
    ticker,         \* per goroutine: its time.Ticker is "none", "live" or "stopped"
    pending,        \* per goroutine: a tick is buffered in ticker.C
    wg,             \* fs.wg, the counter
    crashed,        \* the process died of a panic
    sweeper,        \* the cleanup goroutine: position, loop state, last rowsAffected
    day,            \* wall clock, days
    msg             \* SendTelegramMessage's msg.Text and the line the call has reached

vars ==
    << config, upstream, ledger, dbDown, failsLeft, clock, lastAttemptAt, pc,
       items, iter, resp, tries, plan, cycle, cycleOk, afterClean, clean,
       at, feed, todo, mu, cancelled, tickers, ticker, pending, wg, crashed,
       sweeper, day, msg >>

\* The scheduler's state, the calendar and the message under truncation: what
\* no statement of fetchAndProcessFeed writes.
schedVars ==
    << at, feed, todo, mu, cancelled, tickers, ticker, pending, wg, crashed,
       sweeper, day, msg >>

envVars == << config, upstream, dbDown, failsLeft, clock >>

taskVars == << pc, items, iter, resp, tries, plan, cycle, cycleOk, afterClean >>

\* The goroutines net/http serves requests on: one per connection, so that
\* two POSTs to /config may be handled at the same time.
Handlers == {"web", "web2"}

\* The callers of Start, Stop and RefreshConfiguration: func main, and the
\* HTTP server's goroutines running ConfigPostHandler.
Callers == {"main"} \cup Handlers

\* The goroutines startTickerForFeed starts, in the order it starts them.
Goroutines == << "g1", "g2", "g3" >>

GoroutineSet == { Goroutines[n] : n \in 1 .. Len(Goroutines) }

\* Every task that runs fetchAndProcessFeed.
Tasks == Callers \cup GoroutineSet

\* --------------------------------------------------------------- the ledger

\* A row of feed_items: guid, feed_url and, standing for the other columns, title.
\* created_at is DEFAULT CURRENT_TIMESTAMP, here to the day.
Row(guid, url, title) ==
    [guid |-> guid, feed_url |-> url, title |-> title, created_at |-> day]

\* db.go IsFeedItemPosted: SELECT COUNT(*) WHERE guid = ? AND feed_url = ?, count > 0.
IsFeedItemPosted(rows, guid, url) ==
    Cardinality({ r \in rows : r.guid = guid /\ r.feed_url = url }) > 0

\* db.go createTables: the only constraint on a new row is guid TEXT UNIQUE.
Conflicts(rows, row) == \E r \in rows : r.guid = row.guid

\* SaveFeedItem with INSERT OR REPLACE for INSERT OR IGNORE.
SaveFeedItemReplacing(rows, row) ==
    { r \in rows : r.guid # row.guid } \cup { row }

\* db.go SaveFeedItem: INSERT OR IGNORE INTO feed_items.
SaveFeedItem(rows, row) ==
    IF Conflicts(rows, row) THEN rows ELSE rows \cup { row }

\* ----------------------------------------------------------------- the send

\* What one http.Post to the Bot API can come back with other than success: no
\* response, 400 Bad Request, a 5xx status, 200 with ok = false, 200 with a body
\* that does not decode.
Failures == {"transport", "http400", "http500", "apierr", "garbled"}

\* SendTelegramMessage without the check of apiResponse.Ok.
SendTelegramMessageNoOkCheck(r) ==
    CASE r = "transport" -> "error sending to Telegram"
      [] r \in {"http400", "http500"} -> "Telegram API returned error"
      [] r = "garbled" -> "error decoding Telegram API response"
      [] r \in {"apierr", "ok"} -> "nil"

\* utils.go SendTelegramMessage lines 37-64: the error it returns for a response.
SendTelegramMessage(r) ==
    CASE r = "transport" -> "error sending to Telegram"
      [] r \in {"http400", "http500"} -> "Telegram API returned error"
      [] r = "garbled" -> "error decoding Telegram API response"
      [] r = "apierr" -> "Telegram API error"
      [] r = "ok" -> "nil"

\* telegram.go SendFeedItemToTelegram line 59: the credentials check.
ConfigIncomplete(f) == f.TelegramApiToken = "" \/ f.TelegramChatId = 0

\* telegram.go SendFeedItemToTelegram lines 59-92: the error the poll gets back,
\* r being the response to the http.Post if one was made.
SendFeedItemToTelegram(f, r) ==
    IF ConfigIncomplete(f) THEN "Telegram configuration is incomplete"
    ELSE IF SendTelegramMessage(r) = "nil" THEN "nil"
    ELSE "error sending feed item to Telegram"

\* ------------------------------------------------------------------- Init

\* A message text, by what the truncation reads of it: its length in bytes
\* and the indexes at which ". " occurs in it.
Text(len, ends) == [len |-> len, ends |-> ends]

EmptyText == Text(0, {})

\* SendTelegramMessage called with a text (utils.go line 14), and about to
\* marshal it (line 30).
Message(text, line) == [Text |-> text, at |-> line]

\* No message under way.
Quiet == msg = Message(EmptyText, "entry")

\* The cleanup goroutine: where it is, the feeds runCleanup has still to
\* visit, rowsAffected of its latest CleanupOldItems, and what the run under
\* way has logged for the feeds visited, nothing yet.
Sweeper(where, feeds, n) ==
    [at |-> where, todo |-> feeds, rowsAffected |-> n, logged |-> << >>]

\* The scheduler after main has called Start and StartCleanupRoutine for a
\* configuration of two feeds: both ticker goroutines have received a tick.
Scheduled ==
    /\ at = [t \in Tasks |->
                IF t \in {"g1", "g2"} THEN "tick"
                ELSE IF t = "main" THEN "serve"
                ELSE IF t \in Handlers THEN "out"
                ELSE "unborn"]
    /\ feed = [t \in Tasks |->
                IF t = "g1" THEN config[1]
                ELSE IF t = "g2" THEN config[2]
                ELSE NoFeed]
    /\ todo = [c \in Callers |-> << >>]
    /\ mu = ""
    /\ cancelled = FALSE
    /\ tickers = [u \in Urls |-> IF u = config[1].FeedUrl THEN "g1" ELSE "g2"]
    /\ ticker = [g \in GoroutineSet |-> IF g \in {"g1", "g2"} THEN "live" ELSE "none"]
    /\ pending = [g \in GoroutineSet |-> FALSE]
    /\ wg = 3
    /\ crashed = FALSE

\* The cleanup goroutine has run runCleanup and waits for its next tick.
Serving == Scheduled /\ sweeper = Sweeper("select", << >>, 0)

\* The cleanup goroutine has been started and is about to run runCleanup.
Sweeping == Scheduled /\ sweeper = Sweeper("start", << >>, 0)

\* The state of the pipeline after construction, for the configurations cfgs
\* and the documents docsA and docsB the two feed URLs may serve.
Constructed(cfgs, docsA, docsB) ==
    /\ config \in cfgs
    /\ upstream \in { u \in [Urls -> docsA \cup docsB] : u["A"] \in docsA /\ u["B"] \in docsB }
    /\ ledger = {}
    /\ dbDown = FALSE
    /\ failsLeft = 0
    /\ clock = 0
    /\ lastAttemptAt = -1
    /\ pc = [t \in Tasks |-> "idle"]
    /\ items = [t \in Tasks |-> << >>]
    /\ iter = [t \in Tasks |-> 0]
    /\ resp = [t \in Tasks |-> None]
    /\ tries = [t \in Tasks |-> 0]
    /\ plan = [t \in Tasks |-> 0]
    /\ cycle = [t \in Tasks |-> << >>]
    /\ cycleOk = [t \in Tasks |-> TRUE]
    /\ afterClean = [t \in Tasks |-> FALSE]
    /\ clean = [u \in Urls |-> FALSE]
    /\ day = 0

\* The pipeline with both ticker goroutines running.
InitWith(cfgs, docsA, docsB) == Constructed(cfgs, docsA, docsB) /\ Serving /\ Quiet

\* Feed A serves up to MaxItems items, feed B at most one.
Init == InitWith(ConfigSet, Docs, ShortDocs)

\* ------------------------------------------------------------------ the poll

\* The items visited first to last, oldest first.
ProcessingOrderForward(n) == [k \in 1 .. n |-> k]

\* scheduler.go line 110: for i := len(feedData.Items) - 1; i >= 0; i--, as the
\* sequence of (1-based) indexes the loop visits.
ProcessingOrder(n) == [k \in 1 .. n |-> n + 1 - k]

\* The goroutine's parameter f (the caller's loop variable feed) and its URL.
FeedOf(t) == feed[t]

\* Where a task stands when it calls fetchAndProcessFeed: scheduler.go line 85
\* in a ticker goroutine, line 52 in Start.
Calling == {"tick", "fetch"}

Url(t) == FeedOf(t).FeedUrl

\* The loop variable i of task t (1-based), and item := feedData.Items[i].
I(t) == ProcessingOrder(Len(items[t]))[iter[t]]

Guid(t) == items[t][I(t)]

\* The row fetchAndProcessFeed builds for the item, lines 125-131.
FeedItem(t) == Row(Guid(t), Url(t), I(t))

\* The error SendFeedItemToTelegram returned to the poll of task t.
Err(t) == SendFeedItemToTelegram(FeedOf(t), resp[t])

\* scheduler.go line 250: return nil; the locals of the call are gone.
Return(t, good) ==
    /\ pc' = [pc EXCEPT ![t] = "nil"]
    /\ items' = [items EXCEPT ![t] = << >>]
    /\ iter' = [iter EXCEPT ![t] = 0]
    /\ cycle' = [cycle EXCEPT ![t] = << >>]
    /\ cycleOk' = [cycleOk EXCEPT ![t] = TRUE]
    /\ afterClean' = [afterClean EXCEPT ![t] = FALSE]
    /\ clean' = [clean EXCEPT ![Url(t)] = good]

\* scheduler.go line 110: the next iteration, or the end of the loop.
\* ok: whether the statement that ends this iteration succeeded.
Continue(t, ok) ==
    /\ resp' = [resp EXCEPT ![t] = None]
    /\ tries' = [tries EXCEPT ![t] = 0]
    /\ plan' = [plan EXCEPT ![t] = 0]
    /\ IF iter[t] < Len(items[t])
       THEN /\ pc' = [pc EXCEPT ![t] = "check"]
            /\ iter' = [iter EXCEPT ![t] = iter[t] + 1]
            /\ cycleOk' = [cycleOk EXCEPT ![t] = cycleOk[t] /\ ok]
            /\ UNCHANGED << items, cycle, afterClean, clean >>
       ELSE Return(t, cycleOk[t] /\ ok)

\* Fetch deleting the feed's rows when the fetch fails.
FetchClearing(t) ==
    /\ at[t] \in Calling
    /\ pc[t] = "idle"
    /\ \/ /\ pc' = [pc EXCEPT ![t] = "err"]
          /\ ledger' = { r \in ledger : r.feed_url # Url(t) }
          /\ UNCHANGED << items, iter, cycle, cycleOk, afterClean, clean >>
       \/ /\ ledger' = ledger
          /\ IF Len(upstream[Url(t)]) >= 1
             THEN /\ pc' = [pc EXCEPT ![t] = "check"]
                  /\ items' = [items EXCEPT ![t] = upstream[Url(t)]]
                  /\ iter' = [iter EXCEPT ![t] = 1]
                  /\ afterClean' = [afterClean EXCEPT ![t] = clean[Url(t)]]
                  /\ UNCHANGED << cycle, cycleOk, clean >>
             ELSE Return(t, TRUE)
    /\ UNCHANGED << envVars, lastAttemptAt, resp, tries, plan, schedVars >>

\* scheduler.go lines 100-110: the goroutine of task t enters
\* fetchAndProcessFeed(f) and parses the feed.
Fetch(t) ==
    /\ at[t] \in Calling
    /\ pc[t] = "idle"
    /\ \/ \* fp.ParseURL failed: return the error
          /\ pc' = [pc EXCEPT ![t] = "err"]
          /\ UNCHANGED << items, iter, cycle, cycleOk, afterClean, clean >>
       \/ \* parsed: enter the loop
          IF Len(upstream[Url(t)]) >= 1
          THEN /\ pc' = [pc EXCEPT ![t] = "check"]
               /\ items' = [items EXCEPT ![t] = upstream[Url(t)]]
               /\ iter' = [iter EXCEPT ![t] = 1]
               /\ afterClean' = [afterClean EXCEPT ![t] = clean[Url(t)]]
               /\ UNCHANGED << cycle, cycleOk, clean >>
          ELSE Return(t, TRUE)
    /\ UNCHANGED << envVars, ledger, lastAttemptAt, resp, tries, plan, schedVars >>

\* CheckPosted taking a failed lookup for "not posted" and going on to the send.
CheckPostedSending(t) ==
    /\ pc[t] = "check"
    /\ IF ~dbDown /\ IsFeedItemPosted(ledger, Guid(t), Url(t))
       THEN Continue(t, TRUE)
       ELSE /\ pc' = [pc EXCEPT ![t] = "send"]
            /\ UNCHANGED << items, iter, resp, tries, plan, cycle, cycleOk,
                            afterClean, clean >>
    /\ UNCHANGED << envVars, ledger, lastAttemptAt, schedVars >>

\* CheckPosted looking for a row of the item's title as well as its GUID.
CheckPostedByTitle(t) ==
    /\ pc[t] = "check"
    /\ IF dbDown
       THEN Continue(t, FALSE)
       ELSE IF \E r \in ledger :
                  r.guid = Guid(t) /\ r.feed_url = Url(t) /\ r.title = I(t)
       THEN Continue(t, TRUE)
       ELSE /\ pc' = [pc EXCEPT ![t] = "send"]
            /\ UNCHANGED << items, iter, resp, tries, plan, cycle, cycleOk,
                            afterClean, clean >>
    /\ UNCHANGED << envVars, ledger, lastAttemptAt, schedVars >>

\* scheduler.go lines 111-122: look the item up in the ledger.
CheckPosted(t) ==
    /\ pc[t] = "check"
    /\ IF dbDown
       THEN \* IsFeedItemPosted returned an error: continue
            Continue(t, FALSE)
       ELSE IF IsFeedItemPosted(ledger, Guid(t), Url(t))
       THEN Continue(t, TRUE)
       ELSE /\ pc' = [pc EXCEPT ![t] = "send"]
            /\ UNCHANGED << items, iter, resp, tries, plan, cycle, cycleOk,
                            afterClean, clean >>
    /\ UNCHANGED << envVars, ledger, lastAttemptAt, schedVars >>

\* What the endpoint answers to the next request.
Answers == IF failsLeft > 0 THEN Failures ELSE {"ok"}

\* scheduler.go line 233, telegram.go lines 53-93, utils.go lines 14-65: the
\* sender is invoked for the item; it makes one http.Post unless the feed's
\* credentials are incomplete, and returns.
SendItem(t) ==
    /\ pc[t] = "send"
    /\ pc' = [pc EXCEPT ![t] = "save"]
    /\ cycle' = [cycle EXCEPT ![t] = Append(@, I(t))]
    /\ plan' = [plan EXCEPT ![t] = failsLeft]
    /\ IF ConfigIncomplete(FeedOf(t))
       THEN UNCHANGED << resp, tries, failsLeft, lastAttemptAt >>
       ELSE \E r \in Answers :
            /\ resp' = [resp EXCEPT ![t] = r]
            /\ tries' = [tries EXCEPT ![t] = tries[t] + 1]
            /\ lastAttemptAt' = clock
            /\ failsLeft' = IF failsLeft > 0 THEN failsLeft - 1 ELSE 0
    /\ UNCHANGED << config, upstream, dbDown, clock, ledger, items, iter, cycleOk,
                    afterClean, clean, schedVars >>

\* SaveItem without the check of the send's error.
SaveItemUnchecked(t) ==
    /\ pc[t] = "save"
    /\ IF dbDown
       THEN /\ Continue(t, FALSE)
            /\ UNCHANGED ledger
       ELSE /\ ledger' = SaveFeedItem(ledger, FeedItem(t))
            /\ Continue(t, TRUE)
    /\ UNCHANGED << envVars, lastAttemptAt, schedVars >>

\* SaveItem returning the send's error instead of continuing.
SaveItemAborting(t) ==
    /\ pc[t] = "save"
    /\ IF Err(t) # "nil"
       THEN /\ Return(t, FALSE)
            /\ resp' = [resp EXCEPT ![t] = None]
            /\ tries' = [tries EXCEPT ![t] = 0]
            /\ plan' = [plan EXCEPT ![t] = 0]
            /\ UNCHANGED ledger
       ELSE IF dbDown
       THEN /\ Continue(t, FALSE)
            /\ UNCHANGED ledger
       ELSE /\ ledger' = SaveFeedItem(ledger, FeedItem(t))
            /\ Continue(t, TRUE)
    /\ UNCHANGED << envVars, lastAttemptAt, schedVars >>

\* SaveItem returning SaveFeedItem's error instead of continuing.
SaveItemStopping(t) ==
    /\ pc[t] = "save"
    /\ IF Err(t) # "nil"
       THEN /\ Continue(t, FALSE)
            /\ UNCHANGED ledger
       ELSE IF dbDown
       THEN /\ pc' = [pc EXCEPT ![t] = "err"]
            /\ items' = [items EXCEPT ![t] = << >>]
            /\ iter' = [iter EXCEPT ![t] = 0]
            /\ cycle' = [cycle EXCEPT ![t] = << >>]
            /\ cycleOk' = [cycleOk EXCEPT ![t] = TRUE]
            /\ afterClean' = [afterClean EXCEPT ![t] = FALSE]
            /\ clean' = [clean EXCEPT ![Url(t)] = FALSE]
            /\ resp' = [resp EXCEPT ![t] = None]
            /\ tries' = [tries EXCEPT ![t] = 0]
            /\ plan' = [plan EXCEPT ![t] = 0]
            /\ UNCHANGED ledger
       ELSE /\ ledger' = SaveFeedItem(ledger, FeedItem(t))
            /\ Continue(t, TRUE)
    /\ UNCHANGED << envVars, lastAttemptAt, schedVars >>

\* scheduler.go lines 234-248: on a send error continue; otherwise SaveFeedItem.
SaveItem(t) ==
    /\ pc[t] = "save"
    /\ IF Err(t) # "nil"
       THEN /\ Continue(t, FALSE)
            /\ UNCHANGED ledger
       ELSE IF dbDown
       THEN \* SaveFeedItem returned an error: continue
            /\ Continue(t, FALSE)
            /\ UNCHANGED ledger
       ELSE /\ ledger' = SaveFeedItem(ledger, FeedItem(t))
            /\ Continue(t, TRUE)
    /\ UNCHANGED << envVars, lastAttemptAt, schedVars >>

\* scheduler.go lines 82-88: the goroutine logs the error if there is one,
\* loops, and receives the next tick of its ticker.
Again(t) ==
    /\ at[t] = "tick"
    /\ pc[t] \in {"nil", "err"}
    /\ pc' = [pc EXCEPT ![t] = "idle"]
    /\ UNCHANGED << envVars, ledger, lastAttemptAt, items, iter, resp, tries, plan,
                    cycle, cycleOk, afterClean, clean, schedVars >>

\* ------------------------------------------------------------ the truncation

\* utils.go line 16: const maxMessageLength = 4096.
maxMessageLength == 4096

\* text[:n], for n <= len(text): the occurrences of ". " that fit in it.
Prefix(text, n) == Text(n, { p \in text.ends : p + 2 <= n })

\* strings.LastIndex(text, ". "): the greatest index of an occurrence, or -1.
LastIndex(text) ==
    IF text.ends = {} THEN -1
    ELSE CHOOSE p \in text.ends : \A q \in text.ends : q <= p

\* text + "...": three bytes more, and no new ". ".
Ellipsis(text) == Text(text.len + 3, text.ends)

\* Truncate taking a sentence boundary at the midpoint itself.
TruncateFromMidpoint(text) ==
    IF text.len > maxMessageLength
    THEN LET truncated == Prefix(text, maxMessageLength)
             lastSentence == LastIndex(truncated)
         IN  IF lastSentence >= maxMessageLength \div 2
             THEN Ellipsis(Prefix(truncated, lastSentence + 1))
             ELSE Ellipsis(truncated)
    ELSE text

\* utils.go lines 17-27: the text SendTelegramMessage marshals for msg.Text.
Truncate(text) ==
    IF text.len > maxMessageLength
    THEN LET truncated == Prefix(text, maxMessageLength)
             lastSentence == LastIndex(truncated)
         IN  IF lastSentence > maxMessageLength \div 2
             THEN Ellipsis(Prefix(truncated, lastSentence + 1))
             ELSE Ellipsis(truncated)
    ELSE text

\* utils.go lines 15-30: SendTelegramMessage shortens msg.Text and goes on to
\* marshal the message.
TruncateMessage ==
    /\ msg.at = "entry"
    /\ msg' = Message(Truncate(msg.Text), "marshal")
    /\ UNCHANGED << config, upstream, dbDown, failsLeft, clock, ledger, lastAttemptAt,
                    taskVars, clean, at, feed, todo, mu, cancelled, tickers, ticker,
                    pending, wg, crashed, sweeper, day >>

\* ------------------------------------------------------------ the scheduler

\* What no step of Start, Stop, the ticker goroutines' loop or the cleanup
\* routine writes, fs.configManager.Config and the tasks' pc apart.
pipeVars ==
    << upstream, dbDown, failsLeft, clock, ledger, lastAttemptAt, items, iter,
       resp, tries, plan, cycle, cycleOk, afterClean, clean, day, msg >>

\* The goroutines not started yet, by their place in Goroutines.
Unborn == { n \in 1 .. Len(Goroutines) : at[Goroutines[n]] = "unborn" }

\* The goroutine the next go statement of startTickerForFeed starts.
NextGoroutine == Goroutines[CHOOSE n \in Unborn : \A m \in Unborn : n <= m]

\* scheduler.go lines 44-47 and 261-264: ticker.Stop() for every ticker of
\* fs.tickers, and delete(fs.tickers, url) for every url.
StoppedTickers ==
    [g \in GoroutineSet |->
        IF \E u \in Urls : tickers[u] = g THEN "stopped" ELSE ticker[g]]

NoTickers == [u \in Urls |-> ""]

\* scheduler.go lines 50-56: the first range loop of Start goes to its next
\* feed, or ends and the second loop (line 59) takes the feeds.
InitialFetch(c, feeds) ==
    IF feeds # << >>
    THEN /\ at' = [at EXCEPT ![c] = "fetch"]
         /\ feed' = [feed EXCEPT ![c] = Head(feeds)]
         /\ todo' = [todo EXCEPT ![c] = Tail(feeds)]
    ELSE /\ at' = [at EXCEPT ![c] = "arm"]
         /\ feed' = [feed EXCEPT ![c] = NoFeed]
         /\ todo' = [todo EXCEPT ![c] = config]

\* StartLock emptying the table.
StartLockClearing(c) ==
    /\ at[c] = "Start"
    /\ mu = ""
    /\ mu' = c
    /\ ticker' = StoppedTickers
    /\ tickers' = NoTickers
    /\ InitialFetch(c, config)
    /\ ledger' = {}
    /\ UNCHANGED << config, pc, upstream, dbDown, failsLeft, clock, lastAttemptAt,
                    items, iter, resp, tries, plan, cycle, cycleOk, afterClean,
                    clean, day, msg, cancelled, pending, wg, crashed, sweeper >>

\* StartLock making a new context, as NewFeedScheduler does.
StartLockRenewing(c) ==
    /\ at[c] = "Start"
    /\ mu = ""
    /\ mu' = c
    /\ ticker' = StoppedTickers
    /\ tickers' = NoTickers
    /\ InitialFetch(c, config)
    /\ cancelled' = FALSE
    /\ UNCHANGED << config, pc, pipeVars, pending, wg, crashed, sweeper >>

\* scheduler.go lines 40-50: Start takes fs.mu, stops and discards the tickers
\* and enters the loop of initial fetches.
StartLock(c) ==
    /\ at[c] = "Start"
    /\ mu = ""
    /\ mu' = c
    /\ ticker' = StoppedTickers
    /\ tickers' = NoTickers
    /\ InitialFetch(c, config)
    /\ UNCHANGED << config, pc, pipeVars, cancelled, pending, wg, crashed, sweeper >>

\* scheduler.go lines 52-56: fetchAndProcessFeed has returned to Start, which
\* logs the error if there is one and goes on.
StartFetched(c) ==
    /\ at[c] = "fetch"
    /\ pc[c] \in {"nil", "err"}
    /\ pc' = [pc EXCEPT ![c] = "idle"]
    /\ InitialFetch(c, todo[c])
    /\ UNCHANGED << config, pipeVars, mu, cancelled, tickers, ticker, pending, wg,
                    crashed, sweeper >>

\* scheduler.go lines 69-71: the ticker registered for the URL, if there is
\* one, is stopped.
ExistingStopped(url) ==
    [g \in GoroutineSet |-> IF tickers[url] = g THEN "stopped" ELSE ticker[g]]

\* time.NewTicker panics on a non-positive interval.
NewTickerPanics(f) == f.FeedFetchIntervalMinutes <= 0

\* A panic in func main ends the process and every goroutine with it.
Crash ==
    /\ crashed' = TRUE
    /\ at' = [t \in Tasks |-> "dead"]
    /\ pc' = [t \in Tasks |-> "idle"]
    /\ sweeper' = Sweeper("dead", << >>, sweeper.rowsAffected)
    /\ mu' = ""
    /\ UNCHANGED << feed, todo, tickers, pending, wg >>

\* A panic in ConfigPostHandler is recovered by net/http's server: Start's
\* deferred Unlock runs and the handler's goroutine ends.
Recovered(c) ==
    /\ at' = [at EXCEPT ![c] = "out"]
    /\ todo' = [todo EXCEPT ![c] = << >>]
    /\ mu' = ""
    /\ UNCHANGED << pc, feed, tickers, pending, wg, crashed, sweeper >>

\* scheduler.go lines 59-61 and 67-97: one iteration of Start's second loop,
\* startTickerForFeed(feed).
StartTickerForFeed(c) ==
    /\ at[c] = "arm"
    /\ todo[c] # << >>
    /\ LET f == Head(todo[c])
       IN  IF NewTickerPanics(f)
           THEN /\ ticker' = ExistingStopped(f.FeedUrl)
                /\ IF c = "main" THEN Crash ELSE Recovered(c)
           ELSE /\ Unborn # {}
                /\ ticker' = [ExistingStopped(f.FeedUrl) EXCEPT ![NextGoroutine] = "live"]
                /\ tickers' = [tickers EXCEPT ![f.FeedUrl] = NextGoroutine]
                /\ wg' = wg + 1
                /\ at' = [at EXCEPT ![NextGoroutine] = "select"]
                /\ feed' = [feed EXCEPT ![NextGoroutine] = f]
                /\ todo' = [todo EXCEPT ![c] = Tail(todo[c])]
                /\ UNCHANGED << pc, mu, pending, crashed, sweeper >>
    /\ UNCHANGED << config, pipeVars, cancelled >>

\* scheduler.go lines 63-64: Start returns, releasing fs.mu. main goes on to
\* StartCleanupRoutine.
StartReturn(c) ==
    /\ at[c] = "arm"
    /\ todo[c] = << >>
    /\ mu' = ""
    /\ at' = [at EXCEPT ![c] = IF c = "main" THEN "cleanup" ELSE "out"]
    /\ UNCHANGED << config, pc, pipeVars, feed, todo, cancelled, tickers, ticker,
                    pending, wg, crashed, sweeper >>

\* The ticker of goroutine g delivers a tick into its channel of capacity one.
TickerFires(g) ==
    /\ ticker[g] = "live"
    /\ ~pending[g]
    /\ pending' = [pending EXCEPT ![g] = TRUE]
    /\ UNCHANGED << config, pc, pipeVars, at, feed, todo, mu, cancelled, tickers,
                    ticker, wg, crashed, sweeper >>

\* scheduler.go lines 83-84: select takes case <-ticker.C.
Receive(g) ==
    /\ at[g] = "select"
    /\ pending[g]
    /\ pending' = [pending EXCEPT ![g] = FALSE]
    /\ at' = [at EXCEPT ![g] = "tick"]
    /\ UNCHANGED << config, pc, pipeVars, feed, todo, mu, cancelled, tickers,
                    ticker, wg, crashed, sweeper >>

\* scheduler.go lines 85-88 and 82: fetchAndProcessFeed has returned to the
\* goroutine, which logs the error if there is one and loops to the select.
Loop(g) ==
    /\ at[g] = "tick"
    /\ pc[g] \in {"nil", "err"}
    /\ pc' = [pc EXCEPT ![g] = "idle"]
    /\ at' = [at EXCEPT ![g] = "select"]
    /\ UNCHANGED << config, pipeVars, feed, todo, mu, cancelled, tickers, ticker,
                    pending, wg, crashed, sweeper >>

\* Done without the deferred wg.Done.
DoneUncounted(g) ==
    /\ at[g] = "select"
    /\ cancelled
    /\ ticker' = [ticker EXCEPT ![g] = "stopped"]
    /\ at' = [at EXCEPT ![g] = "exited"]
    /\ UNCHANGED << config, pc, pipeVars, feed, todo, mu, cancelled, tickers,
                    pending, wg, crashed, sweeper >>

\* scheduler.go lines 89-91 and 81: select takes case <-fs.ctx.Done(); the
\* goroutine stops its ticker and returns, and the deferred wg.Done runs.
Done(g) ==
    /\ at[g] = "select"
    /\ cancelled
    /\ ticker' = [ticker EXCEPT ![g] = "stopped"]
    /\ at' = [at EXCEPT ![g] = "exited"]
    /\ wg' = wg - 1
    /\ UNCHANGED << config, pc, pipeVars, feed, todo, mu, cancelled, tickers,
                    pending, crashed, sweeper >>

\* scheduler.go lines 278-301: main calls StartCleanupRoutine, which starts
\* the cleanup goroutine. README's func main then starts the HTTP server and
\* waits for a signal.
StartCleanupRoutine ==
    /\ at["main"] = "cleanup"
    /\ wg' = wg + 1
    /\ sweeper' = Sweeper("start", << >>, 0)
    /\ at' = [at EXCEPT !["main"] = "serve"]
    /\ UNCHANGED << config, pc, pipeVars, feed, todo, mu, cancelled, tickers,
                    ticker, pending, crashed >>

\* scheduler.go lines 284, 292-293 and 304-307: the cleanup goroutine calls
\* runCleanup, at once when started and at every tick of its 24-hour ticker;
\* runCleanup ranges over the configured feeds.
RunCleanup ==
    /\ sweeper.at \in {"start", "select"}
    /\ sweeper' = Sweeper("run", config, sweeper.rowsAffected)
    /\ UNCHANGED << config, pc, pipeVars, at, feed, todo, mu, cancelled, tickers,
                    ticker, pending, wg, crashed >>

\* CleanupOldItems with created_at <= ? for created_at < ?.
CleanupOldItemsInclusive(rows, retentionDays) ==
    { r \in rows : ~(r.created_at <= day - retentionDays) }

\* db.go lines 82-86: DELETE FROM feed_items WHERE created_at < ?, with
\* thresholdDate = time.Now().AddDate(0, 0, -retentionDays); the rows left.
CleanupOldItems(rows, retentionDays) ==
    { r \in rows : ~(r.created_at < day - retentionDays) }

\* runCleanup purging for every feed, whatever its FeedRetentionDays.
PurgesAlways(f) == TRUE

\* scheduler.go line 308: if feed.FeedRetentionDays > 0.
Purges(f) == f.FeedRetentionDays > 0

\* The cleanup goroutine in runCleanup, having logged line for the feed
\* visited (db.go line 96, scheduler.go line 311).
Logged(feeds, n, line) ==
    [Sweeper("run", feeds, n) EXCEPT !.logged = Append(sweeper.logged, line)]

\* CleanupFeed with runCleanup returning at the first error.
CleanupFeedAborting ==
    /\ sweeper.at = "run"
    /\ sweeper.todo # << >>
    /\ LET f == Head(sweeper.todo)
           left == CleanupOldItems(ledger, f.FeedRetentionDays)
       IN  IF ~Purges(f)
           THEN /\ ledger' = ledger
                /\ sweeper' = [sweeper EXCEPT !.todo = Tail(sweeper.todo)]
           ELSE IF ~dbDown
           THEN /\ ledger' = left
                /\ sweeper' = Logged(Tail(sweeper.todo),
                                     Cardinality(ledger) - Cardinality(left), "cleaned")
           ELSE /\ ledger' = ledger
                /\ sweeper' = Logged(<< >>, sweeper.rowsAffected, "error")
    /\ UNCHANGED << config, pc, upstream, dbDown, failsLeft, clock, lastAttemptAt,
                    items, iter, resp, tries, plan, cycle, cycleOk, afterClean,
                    clean, day, msg, at, feed, todo, mu, cancelled, tickers,
                    ticker, pending, wg, crashed >>

\* scheduler.go lines 307-314: one iteration of runCleanup's loop.
CleanupFeed ==
    /\ sweeper.at = "run"
    /\ sweeper.todo # << >>
    /\ LET f == Head(sweeper.todo)
           left == CleanupOldItems(ledger, f.FeedRetentionDays)
       IN  IF ~Purges(f)
           THEN \* nothing to purge
                /\ ledger' = ledger
                /\ sweeper' = [sweeper EXCEPT !.todo = Tail(sweeper.todo)]
           ELSE IF ~dbDown
           THEN /\ ledger' = left
                /\ sweeper' = Logged(Tail(sweeper.todo),
                                     Cardinality(ledger) - Cardinality(left), "cleaned")
           ELSE \* CleanupOldItems returned an error, which is logged
                /\ ledger' = ledger
                /\ sweeper' = Logged(Tail(sweeper.todo), sweeper.rowsAffected, "error")
    /\ UNCHANGED << config, pc, upstream, dbDown, failsLeft, clock, lastAttemptAt,
                    items, iter, resp, tries, plan, cycle, cycleOk, afterClean,
                    clean, day, msg, at, feed, todo, mu, cancelled, tickers,
                    ticker, pending, wg, crashed >>

\* scheduler.go lines 316 and 290-291: runCleanup returns and the goroutine
\* waits in its select.
CleanupDone ==
    /\ sweeper.at = "run"
    /\ sweeper.todo = << >>
    /\ sweeper' = Sweeper("select", << >>, sweeper.rowsAffected)
    /\ UNCHANGED << config, pc, pipeVars, at, feed, todo, mu, cancelled, tickers,
                    ticker, pending, wg, crashed >>

\* scheduler.go lines 294-295, 288 and 281: the cleanup goroutine takes case
\* <-fs.ctx.Done() and returns.
CleanupExit ==
    /\ sweeper.at = "select"
    /\ cancelled
    /\ sweeper' = Sweeper("exited", << >>, sweeper.rowsAffected)
    /\ wg' = wg - 1
    /\ UNCHANGED << config, pc, pipeVars, at, feed, todo, mu, cancelled, tickers,
                    ticker, pending, crashed >>

\* README's func main: the interrupt signal arrives and main calls Stop.
Signal ==
    /\ at["main"] = "serve"
    /\ at' = [at EXCEPT !["main"] = "Stop"]
    /\ UNCHANGED << config, pc, pipeVars, feed, todo, mu, cancelled, tickers,
                    ticker, pending, wg, crashed, sweeper >>

\* scheduler.go lines 255-258: Stop takes fs.mu and cancels the context.
StopLock ==
    /\ at["main"] = "Stop"
    /\ mu = ""
    /\ mu' = "main"
    /\ cancelled' = TRUE
    /\ at' = [at EXCEPT !["main"] = "halt"]
    /\ UNCHANGED << config, pc, pipeVars, feed, todo, tickers, ticker, pending, wg,
                    crashed, sweeper >>

\* scheduler.go lines 261-264: Stop stops and discards the tickers, and goes
\* on to wait.
StopTickers ==
    /\ at["main"] = "halt"
    /\ ticker' = StoppedTickers
    /\ tickers' = NoTickers
    /\ at' = [at EXCEPT !["main"] = "wait"]
    /\ UNCHANGED << config, pc, pipeVars, feed, todo, mu, cancelled, pending, wg,
                    crashed, sweeper >>

\* Stop returning without fs.wg.Wait().
StopReturnsWhen(n) == TRUE

\* scheduler.go line 267: fs.wg.Wait() returns when the counter is zero.
WaitReturnsWhen(n) == n = 0

\* scheduler.go lines 267-270: Stop returns, releasing fs.mu.
StopReturn ==
    /\ at["main"] = "wait"
    /\ WaitReturnsWhen(wg)
    /\ mu' = ""
    /\ at' = [at EXCEPT !["main"] = "stopped"]
    /\ UNCHANGED << config, pc, pipeVars, feed, todo, cancelled, tickers, ticker,
                    pending, wg, crashed, sweeper >>

\* --------------------------------------------------------- the configuration form

\* The decimal strings the form fields are drawn from, with their values.
Numerals == ("-1" :> -1) @@ ("0" :> 0) @@ ("1" :> 1) @@ ("2" :> 2)

\* strconv.Atoi and strconv.ParseInt: err == nil, and the value.
AtoiOk(str) == str \in DOMAIN Numerals

Atoi(str) == Numerals[str]

\* part_002 lines 449-454, 456-461 and 463-468: the default, unless the form
\* has an i-th value that is not empty and parses.
FormInt(values, i, default) ==
    IF i <= Len(values) /\ values[i] # "" /\ AtoiOk(values[i])
    THEN Atoi(values[i])
    ELSE default

\* part_002 lines 477-492: the Feed built for row i of the form.
FormFeed(form, i) ==
    FeedWith(form.feed_urls[i],
             FormInt(form.feed_intervals, i, 30),
             FormInt(form.feed_retention_days, i, 30),
             IF i <= Len(form.telegram_tokens) THEN form.telegram_tokens[i] ELSE "",
             FormInt(form.telegram_chat_ids, i, 0))

RECURSIVE FeedsFrom(_, _)
\* part_002 lines 447-496: the loop from row i on; rows without a URL are dropped.
FeedsFrom(form, i) ==
    IF i > Len(form.feed_urls) THEN << >>
    ELSE (IF form.feed_urls[i] # "" THEN << FormFeed(form, i) >> ELSE << >>)
         \o FeedsFrom(form, i + 1)

\* part_002 lines 436-499.
processFeedsFromForm(form) == FeedsFrom(form, 1)

\* r.Form of a POST to /config: the repeated fields of the feed rows.
Form(urls, intervals, retentions) ==
    [feed_urls |-> urls, feed_intervals |-> intervals,
     feed_retention_days |-> retentions,
     telegram_tokens |-> << "tok", "tok" >>,
     telegram_chat_ids |-> << "1", "1" >>]

\* The forms posted: one or two rows, a row without URL, intervals missing,
\* zero, not a number, and valid.
Forms ==
    { Form(urls, intervals, << >>) :
        urls \in { << "A" >>, << "", "B" >>, << "A", "B" >> },
        intervals \in { << >>, << "0" >>, << "x", "2" >> } }

\* Two forms of one row: the interval left empty, and the interval "0".
FewForms == { Form(<< "A" >>, intervals, << >>) : intervals \in { << >>, << "0" >> } }

\* The goroutines that the calls of Start by handlers other than w, already
\* under way, go on to start once the configuration is feeds: one for each
\* feed the second loop has still to visit, and one for each of feeds in a
\* call that has not reached its second loop.
StillToStart(w, feeds) ==
    LET others == Handlers \ {w}
    IN  Cardinality(UNION { IF at[c] \in {"Start", "fetch"}
                            THEN { << c, k >> : k \in 1 .. Len(feeds) }
                            ELSE IF at[c] = "arm"
                            THEN { << c, k >> : k \in 1 .. Len(todo[c]) }
                            ELSE {} : c \in others })

\* part_002 lines 410-432, ConfigPostHandler: the new configuration replaces
\* the old one and is saved; if saving fails the handler returns, otherwise
\* it calls RefreshConfiguration, which calls Start (scheduler.go 273-275).
\* README's func main starts the HTTP server after StartCleanupRoutine.
ConfigPostHandlerBy(w, form) ==
    /\ at[w] = "out"
    /\ at["main"] \in {"serve", "Stop", "halt", "wait", "stopped"}
    /\ Cardinality(Unborn) >=
           Len(processFeedsFromForm(form)) + StillToStart(w, processFeedsFromForm(form))
    /\ config' = processFeedsFromForm(form)
    /\ \/ \* SaveConfig returned an error
          at' = at
       \/ at' = [at EXCEPT ![w] = "Start"]
    /\ UNCHANGED << pc, pipeVars, feed, todo, mu, cancelled, tickers, ticker,
                    pending, wg, crashed, sweeper >>

\* One POST to /config at a time.
ConfigPostHandler(form) == ConfigPostHandlerBy("web", form)

\* ----------------------------------------------------------- the environment

\* The outbound endpoint starts failing: its next n requests fail.
Outage(n) ==
    /\ failsLeft = 0
    /\ failsLeft' = n
    /\ UNCHANGED << config, upstream, dbDown, clock, ledger, lastAttemptAt,
                    taskVars, clean, schedVars >>

\* The database becomes unavailable, or available again.
DbFlip ==
    /\ dbDown' = ~dbDown
    /\ UNCHANGED << config, upstream, failsLeft, clock, ledger, lastAttemptAt,
                    taskVars, clean, schedVars >>

\* One second passes.
Tick ==
    /\ clock < MaxClock
    /\ clock' = clock + 1
    /\ UNCHANGED << config, upstream, dbDown, failsLeft, ledger, lastAttemptAt,
                    taskVars, clean, schedVars >>

\* Midnight: the next day begins.
Midnight ==
    /\ day < MaxDay
    /\ day' = day + 1
    /\ UNCHANGED << config, upstream, dbDown, failsLeft, clock, ledger, lastAttemptAt,
                    taskVars, clean, at, feed, todo, mu, cancelled, tickers, ticker,
                    pending, wg, crashed, sweeper, msg >>

\* ------------------------------------------------------------ specifications

\* Two feeds polled concurrently; the endpoint fails single requests.
Next ==
    \/ \E t \in Tasks : Fetch(t)
    \/ \E t \in Tasks : CheckPosted(t)
    \/ \E t \in Tasks : SendItem(t)
    \/ \E t \in Tasks : SaveItem(t)
    \/ \E t \in Tasks : Again(t)
    \/ Outage(1)
    \/ DbFlip

Spec == Init /\ [][Next]_vars

\* Documents of up to MaxItems + 1 distinct items on feed A, none on feed B.
InitOrder == InitWith({CompleteConfig}, LongDocs, {<< >>})

SpecOrder == InitOrder /\ [][Next]_vars

\* Short documents.
InitShort == InitWith(ConfigSet, ShortDocs, ShortDocs)

\* The endpoint accepts every request; the database fails at times.
NextRewrite ==
    \/ \E t \in Tasks : Fetch(t)
    \/ \E t \in Tasks : CheckPosted(t)
    \/ \E t \in Tasks : SendItem(t)
    \/ \E t \in Tasks : SaveItem(t)
    \/ \E t \in Tasks : Again(t)
    \/ DbFlip

SpecRewrite == Init /\ [][NextRewrite]_vars

\* Outages of up to MaxFails requests.
NextRetry ==
    \/ \E t \in Tasks : Fetch(t)
    \/ \E t \in Tasks : CheckPosted(t)
    \/ \E t \in Tasks : SendItem(t)
    \/ \E t \in Tasks : SaveItem(t)
    \/ \E t \in Tasks : Again(t)
    \/ \E n \in 1 .. MaxFails : Outage(n)
    \/ DbFlip

SpecRetry == InitShort /\ [][NextRetry]_vars

\* The wall clock running.
NextTimed ==
    \/ \E t \in Tasks : Fetch(t)
    \/ \E t \in Tasks : CheckPosted(t)
    \/ \E t \in Tasks : SendItem(t)
    \/ \E t \in Tasks : SaveItem(t)
    \/ \E t \in Tasks : Again(t)
    \/ Outage(1)
    \/ DbFlip
    \/ Tick

SpecTimed == InitShort /\ [][NextTimed]_vars

\* The scheduler as NewFeedScheduler returns it, main about to call Start.
Booting ==
    /\ at = [t \in Tasks |->
                IF t = "main" THEN "Start" ELSE IF t \in Handlers THEN "out" ELSE "unborn"]
    /\ feed = [t \in Tasks |-> NoFeed]
    /\ todo = [c \in Callers |-> << >>]
    /\ mu = ""
    /\ cancelled = FALSE
    /\ tickers = NoTickers
    /\ ticker = [g \in GoroutineSet |-> "none"]
    /\ pending = [g \in GoroutineSet |-> FALSE]
    /\ wg = 0
    /\ crashed = FALSE
    /\ sweeper = Sweeper("unborn", << >>, 0)

\* What LoadConfig may read from config.yaml: two feeds, one feed, and a feed
\* with the interval 0 that the form saves for the input "0".
BootConfigs ==
    { CompleteConfig,
      << Feed("A", "tok", 1) >>,
      << FeedWith("A", 0, 30, "tok", 1) >> }

\* Feed A serves nothing or one item, feed B nothing.
InitSched == Constructed(BootConfigs, {<< >>, << "g1" >>}, {<< >>}) /\ Booting /\ Quiet

\* The whole program: main starts the scheduler and the cleanup routine, the
\* configuration is posted, the tickers fire, main stops the scheduler.
NextSched ==
    \/ \E c \in Callers : StartLock(c)
    \/ \E c \in Callers : StartFetched(c)
    \/ \E c \in Callers : StartTickerForFeed(c)
    \/ \E c \in Callers : StartReturn(c)
    \/ \E g \in GoroutineSet : TickerFires(g)
    \/ \E g \in GoroutineSet : Receive(g)
    \/ \E g \in GoroutineSet : Loop(g)
    \/ \E g \in GoroutineSet : Done(g)
    \/ \E t \in Tasks : Fetch(t)
    \/ \E t \in Tasks : CheckPosted(t)
    \/ \E t \in Tasks : SendItem(t)
    \/ \E t \in Tasks : SaveItem(t)
    \/ StartCleanupRoutine
    \/ RunCleanup
    \/ CleanupFeed
    \/ CleanupDone
    \/ CleanupExit
    \/ \E form \in FewForms : ConfigPostHandler(form)
    \/ Signal
    \/ StopLock
    \/ StopTickers
    \/ StopReturn

SpecSched == InitSched /\ [][NextSched]_vars

\* The configuration posted with every form of Forms, before main is told to
\* stop and before the cleanup goroutine is scheduled.
NextForm ==
    \/ \E c \in Callers : StartLock(c)
    \/ \E c \in Callers : StartFetched(c)
    \/ \E c \in Callers : StartTickerForFeed(c)
    \/ \E c \in Callers : StartReturn(c)
    \/ \E g \in GoroutineSet : TickerFires(g)
    \/ \E g \in GoroutineSet : Receive(g)
    \/ \E g \in GoroutineSet : Loop(g)
    \/ \E t \in Tasks : Fetch(t)
    \/ \E t \in Tasks : CheckPosted(t)
    \/ \E t \in Tasks : SendItem(t)
    \/ \E t \in Tasks : SaveItem(t)
    \/ StartCleanupRoutine
    \/ \E form \in Forms : ConfigPostHandler(form)

SpecForm == InitSched /\ [][NextForm]_vars

\* Forms of one row, for feed A and for feed B.
PostForms == { Form(<< url >>, << >>, << >>) : url \in Urls }

\* One feed configured, serving nothing or one item.
InitPosts ==
    /\ Constructed({ << Feed("A", "tok", 1) >> }, {<< >>, << "g1" >>}, {<< >>})
    /\ Booting
    /\ Quiet

\* The configuration posted over two connections at a time.
NextPosts ==
    \/ \E c \in Callers : StartLock(c)
    \/ \E c \in Callers : StartFetched(c)
    \/ \E c \in Callers : StartTickerForFeed(c)
    \/ \E c \in Callers : StartReturn(c)
    \/ \E g \in GoroutineSet : TickerFires(g)
    \/ \E g \in GoroutineSet : Receive(g)
    \/ \E g \in GoroutineSet : Loop(g)
    \/ \E t \in Tasks : Fetch(t)
    \/ \E t \in Tasks : CheckPosted(t)
    \/ \E t \in Tasks : SendItem(t)
    \/ \E t \in Tasks : SaveItem(t)
    \/ StartCleanupRoutine
    \/ \E w \in Handlers, form \in PostForms : ConfigPostHandlerBy(w, form)

SpecPosts == InitPosts /\ [][NextPosts]_vars

\* The scheduler after a POST to /config that left feed A configured: g1, the
\* goroutine main's Start started, had received a tick when the handler's
\* Start stopped its ticker; g2, which that Start started, has received a
\* tick too.
Refreshed ==
    /\ at = [t \in Tasks |->
                IF t \in {"g1", "g2"} THEN "tick"
                ELSE IF t = "main" THEN "serve"
                ELSE IF t \in Handlers THEN "out"
                ELSE "unborn"]
    /\ feed = [t \in Tasks |-> IF t \in {"g1", "g2"} THEN config[1] ELSE NoFeed]
    /\ todo = [c \in Callers |-> << >>]
    /\ mu = ""
    /\ cancelled = FALSE
    /\ tickers = [u \in Urls |-> IF u = config[1].FeedUrl THEN "g2" ELSE ""]
    /\ ticker = [g \in GoroutineSet |->
                    IF g = "g1" THEN "stopped" ELSE IF g = "g2" THEN "live" ELSE "none"]
    /\ pending = [g \in GoroutineSet |-> FALSE]
    /\ wg = 3
    /\ crashed = FALSE
    /\ sweeper = Sweeper("select", << >>, 0)

\* Feed A alone configured, serving one item or two.
InitRecord ==
    /\ Constructed({ << Feed("A", "tok", 1) >> }, {<< "g1" >>, << "", "g1" >>}, {<< >>})
    /\ Refreshed
    /\ Quiet

\* Two goroutines poll feed A while days pass.
NextRecord ==
    \/ \E t \in Tasks : Fetch(t)
    \/ \E t \in Tasks : CheckPosted(t)
    \/ \E t \in Tasks : SendItem(t)
    \/ \E t \in Tasks : SaveItem(t)
    \/ \E g \in GoroutineSet : TickerFires(g)
    \/ \E g \in GoroutineSet : Receive(g)
    \/ \E g \in GoroutineSet : Loop(g)
    \/ Midnight

SpecRecord == InitRecord /\ [][NextRecord]_vars

\* Complete credentials; each feed serves nothing or one item.
InitLive == InitWith({CompleteConfig}, ShortDocs, ShortDocs)

\* fp.ParseURL returning the document.
Parsed(t) == Fetch(t) /\ pc'[t] # "err"

\* The tickers keep firing and every goroutine that can take a step takes one
\* in the end; a fetch that is tried again and again succeeds in the end.
Progress ==
    \A g \in GoroutineSet :
        /\ SF_vars(Parsed(g))
        /\ WF_vars(CheckPosted(g))
        /\ WF_vars(SendItem(g))
        /\ WF_vars(SaveItem(g))
        /\ WF_vars(Again(g))

\* The two feeds polled for ever.
SpecLive == InitLive /\ [][Next]_vars /\ Progress

\* The scheduler after Stop has returned: main had started it for one feed,
\* and the ticker goroutine and the cleanup goroutine have exited.
Stopped ==
    /\ at = [t \in Tasks |->
                IF t = "main" THEN "stopped"
                ELSE IF t \in Handlers THEN "out"
                ELSE IF t = "g1" THEN "exited"
                ELSE "unborn"]
    /\ feed = [t \in Tasks |-> IF t = "g1" THEN config[1] ELSE NoFeed]
    /\ todo = [c \in Callers |-> << >>]
    /\ mu = ""
    /\ cancelled = TRUE
    /\ tickers = NoTickers
    /\ ticker = [g \in GoroutineSet |-> IF g = "g1" THEN "stopped" ELSE "none"]
    /\ pending = [g \in GoroutineSet |-> FALSE]
    /\ wg = 0
    /\ crashed = FALSE
    /\ sweeper = Sweeper("exited", << >>, 0)

\* Feed A was configured, serving nothing or one item, and nothing is recorded.
InitStopped ==
    /\ Constructed({ << Feed("A", "tok", 1) >> }, {<< >>, << "g1" >>}, {<< >>})
    /\ Stopped
    /\ Quiet

\* The configuration is posted after Stop.
NextStopped ==
    \/ \E c \in Callers : StartLock(c)
    \/ \E c \in Callers : StartFetched(c)
    \/ \E c \in Callers : StartTickerForFeed(c)
    \/ \E c \in Callers : StartReturn(c)
    \/ \E g \in GoroutineSet : TickerFires(g)
    \/ \E g \in GoroutineSet : Receive(g)
    \/ \E g \in GoroutineSet : Loop(g)
    \/ \E g \in GoroutineSet : Done(g)
    \/ \E t \in Tasks : Fetch(t)
    \/ \E t \in Tasks : CheckPosted(t)
    \/ \E t \in Tasks : SendItem(t)
    \/ \E t \in Tasks : SaveItem(t)
    \/ \E form \in PostForms : ConfigPostHandler(form)

SpecStopped == InitStopped /\ [][NextStopped]_vars

\* Every task that can take a step takes one in the end: a poll goes on to
\* its end, Start and Stop go on once they hold fs.mu, and runCleanup goes on
\* to its end. sync.Mutex hands the lock to a caller that keeps waiting for
\* it, and a select with ctx.Done() ready, which chooses among its ready
\* cases at random, takes it in the end.
Scheduling ==
    /\ \A t \in Tasks :
          /\ WF_vars(Fetch(t))
          /\ WF_vars(CheckPosted(t))
          /\ WF_vars(SendItem(t))
          /\ WF_vars(SaveItem(t))
    /\ \A c \in Callers :
          /\ WF_vars(StartFetched(c))
          /\ WF_vars(StartTickerForFeed(c))
          /\ WF_vars(StartReturn(c))
    /\ \A g \in GoroutineSet :
          /\ WF_vars(Loop(g))
          /\ SF_vars(Done(g))
    /\ WF_vars(RunCleanup)
    /\ WF_vars(CleanupFeed)
    /\ WF_vars(CleanupDone)
    /\ SF_vars(CleanupExit)
    /\ SF_vars(StopLock)
    /\ WF_vars(StopTickers)
    /\ WF_vars(StopReturn)

\* Feed A alone configured, serving one item; the configuration has been
\* posted once.
InitHalt ==
    /\ Constructed({ << Feed("A", "tok", 1) >> }, {<< "g1" >>}, {<< >>})
    /\ Refreshed
    /\ Quiet

\* The form is posted once more, with feed A, and main is told to stop.
NextHalt ==
    \/ \E c \in Callers : StartLock(c)
    \/ \E c \in Callers : StartFetched(c)
    \/ \E c \in Callers : StartTickerForFeed(c)
    \/ \E c \in Callers : StartReturn(c)
    \/ \E g \in GoroutineSet : TickerFires(g)
    \/ \E g \in GoroutineSet : Receive(g)
    \/ \E g \in GoroutineSet : Loop(g)
    \/ \E g \in GoroutineSet : Done(g)
    \/ \E t \in Tasks : Fetch(t)
    \/ \E t \in Tasks : CheckPosted(t)
    \/ \E t \in Tasks : SendItem(t)
    \/ \E t \in Tasks : SaveItem(t)
    \/ RunCleanup
    \/ CleanupFeed
    \/ CleanupDone
    \/ CleanupExit
    \/ ConfigPostHandler(Form(<< "A" >>, << >>, << >>))
    \/ Signal
    \/ StopLock
    \/ StopTickers
    \/ StopReturn

\* The program from there on, every task making progress.
SpecHalt == InitHalt /\ [][NextHalt]_vars /\ Scheduling

\* What LoadConfig may read from config.yaml: two feeds, and one feed URL
\* listed in two entries.
TwiceConfigs == { CompleteConfig, << Feed("A", "tok", 1), Feed("A", "tok", 1) >> }

\* Feed A serves nothing or one item, feed B nothing.
InitTwice == Constructed(TwiceConfigs, {<< >>, << "g1" >>}, {<< >>}) /\ Booting /\ Quiet

\* main starts the scheduler and the cleanup routine, and the tickers fire.
NextTwice ==
    \/ \E c \in Callers : StartLock(c)
    \/ \E c \in Callers : StartFetched(c)
    \/ \E c \in Callers : StartTickerForFeed(c)
    \/ \E c \in Callers : StartReturn(c)
    \/ \E g \in GoroutineSet : TickerFires(g)
    \/ \E g \in GoroutineSet : Receive(g)
    \/ \E g \in GoroutineSet : Loop(g)
    \/ \E t \in Tasks : Fetch(t)
    \/ \E t \in Tasks : CheckPosted(t)
    \/ \E t \in Tasks : SendItem(t)
    \/ \E t \in Tasks : SaveItem(t)
    \/ StartCleanupRoutine

SpecTwice == InitTwice /\ [][NextTwice]_vars

\* Feed A kept for one or two days; feed B kept for ever (0) or for two days.
SweepConfigs ==
    { << FeedWith("A", 30, a, "tok", 1), FeedWith("B", 30, b, "tok", 1) >> :
        a \in {1, 2}, b \in {0, 2} }

\* Each feed serves one item of its own.
InitSweep == Constructed(SweepConfigs, {<< "g1" >>}, {<< "" >>}) /\ Sweeping /\ Quiet

\* Days pass while the two feeds are polled and the cleanup goroutine sweeps.
NextSweep ==
    \/ \E t \in Tasks : Fetch(t)
    \/ \E t \in Tasks : CheckPosted(t)
    \/ \E t \in Tasks : SendItem(t)
    \/ \E t \in Tasks : SaveItem(t)
    \/ \E t \in Tasks : Again(t)
    \/ RunCleanup
    \/ CleanupFeed
    \/ CleanupDone
    \/ DbFlip
    \/ Midnight

SpecSweep == InitSweep /\ [][NextSweep]_vars

\* Lengths at and around 0, the midpoint and maxMessageLength.
TextLens == {0, 1, 2049, 2051, 4095, 4096, 4097, 4099, 5000}

\* Indexes of ". " at and around the start, the midpoint and the cut.
TextEnds == {0, 2047, 2048, 2049, 4093, 4094, 4095, 4096}

\* An occurrence of ". " lies within the text, and two occurrences do not
\* overlap.
WellFormed(text) ==
    /\ \A p \in text.ends : p + 2 <= text.len
    /\ \A p, q \in text.ends : p # q => (p - q >= 2 \/ q - p >= 2)

\* The texts of these lengths with ". " at some of these indexes.
Texts ==
    { text \in { Text(n, e) : n \in TextLens, e \in SUBSET TextEnds } : WellFormed(text) }

\* SendTelegramMessage called with any of the texts.
InitText ==
    /\ Constructed({CompleteConfig}, {<< >>}, {<< >>})
    /\ Serving
    /\ msg \in { Message(text, "entry") : text \in Texts }

NextText == TruncateMessage

SpecText == InitText /\ [][NextText]_vars

\* ------------------------------------------------------------------ claims

\* The elements of a sequence.
Range(seq) == { seq[k] : k \in 1 .. Len(seq) }

\* Task t, at the statement after the send, finishes the iteration in this step.
Finishes(t) == pc[t] = "save" /\ pc'[t] # "save"

\* The send of task t's item made a request that Telegram accepted.
Delivered(t) == tries[t] >= 1 /\ resp[t] = "ok"

\* This step is an http.Post of task t.
Attempts(t) == pc[t] = "send" /\ tries'[t] = tries[t] + 1

\* Responses the specification calls retryable (a transport error, a non-2xx
\* status) and permanent (malformed input, which the Bot API answers with 400).
Retryable == {"transport", "http500"}

Malformed == {"http400"}

\* C1: a ledger row for (guid, feed_url) appears only in the step in which the
\* poll of that feed, having sent that item successfully, saves it; the ledger
\* starts empty, so no row exists for an item whose send failed, was skipped
\* or was never attempted.
C1_EntryOnlyAfterSuccessfulSend ==
    [][\A row \in ledger' \ ledger :
          \E t \in Tasks :
              /\ pc[t] = "save"
              /\ Delivered(t)
              /\ row.guid = Guid(t)
              /\ row.feed_url = Url(t)]_vars

\* C1 witness: an item's send has failed, the item has no row, and the ledger
\* holds a row of another item.
C1_Witness ==
    \E t \in Tasks :
        /\ pc[t] = "save"
        /\ ~Delivered(t)
        /\ ~IsFeedItemPosted(ledger, Guid(t), Url(t))
        /\ ledger # {}

\* C2: when the send of an item whose (guid, feed_url) pair is not in the
\* ledger has succeeded and the database is up, the save leaves exactly one row
\* for that pair, whatever rows other feeds have.
C2_SuccessfulSendIsRecorded ==
    [][\A t \in Tasks :
          (Finishes(t) /\ Delivered(t) /\ ~dbDown
             /\ ~IsFeedItemPosted(ledger, Guid(t), Url(t)))
          => Cardinality({ r \in ledger' : r.guid = Guid(t) /\ r.feed_url = Url(t) }) = 1]_vars

\* C3: a poll that follows a poll of the same feed in which every lookup, send
\* and write succeeded, with the same upstream items, invokes the sender for
\* no item and writes nothing.
C3_PollIdempotent ==
    \A t \in Tasks : afterClean[t] => (pc[t] \notin {"send", "save"} /\ cycle[t] = << >>)

\* No two rows share a (guid, feed_url) pair.
PairUnique(rows) ==
    \A r1, r2 \in rows : (r1.guid = r2.guid /\ r1.feed_url = r2.feed_url) => r1 = r2

\* C4: the ledger is keyed by (guid, feed_url) and nothing else: it never holds
\* two rows of one pair, and a save that succeeds adds the row unless a row of
\* the same pair is there, so rows of one guid under two feeds coexist.
C4_KeyedByPairOnly ==
    [][/\ PairUnique(ledger')
       /\ \A t \in Tasks :
            (Finishes(t) /\ Delivered(t) /\ ~dbDown)
            => ledger' = IF IsFeedItemPosted(ledger, Guid(t), Url(t))
                         THEN ledger
                         ELSE ledger \cup { FeedItem(t) }]_vars

\* C5: within one poll the sender is invoked in the reverse of the parser's
\* order: each invocation is for an item the parser listed before the item of
\* the invocation preceding it, whether or not earlier sends failed.
C5_OldestFirst ==
    \A t \in Tasks :
        \A j \in 1 .. Len(cycle[t]) - 1 : cycle[t][j] > cycle[t][j + 1]

\* C5 witness: parser output [T3, T2, T1] has been sent in the order T1, T2,
\* T3, something having failed on the way.
C5_Witness ==
    \E t \in Tasks :
        /\ Len(items[t]) = 3
        /\ cycle[t] = << 3, 2, 1 >>
        /\ ~cycleOk[t]

\* C6: an http.Post by any task starts at least MinInterval after the start
\* of the http.Post before it.
C6_GlobalPacing ==
    [][\A t \in Tasks :
          (Attempts(t) /\ lastAttemptAt >= 0) => clock - lastAttemptAt >= MinInterval]_vars

\* C7: one send makes at most MaxAttempts requests, and a retryable failure
\* before the last of them does not end the send: it tries again.
C7_RetriesUpToFive ==
    [][\A t \in Tasks :
          Attempts(t) =>
              /\ tries'[t] <= MaxAttempts
              /\ (resp'[t] \in Retryable /\ tries'[t] < MaxAttempts) => pc'[t] = "send"]_vars

\* C8: an item whose send is invoked when the endpoint fails the next
\* MaxAttempts - 1 requests transiently and then succeeds is delivered by
\* that send, and the poll then performs the ledger write for it.
C8_SucceedsOnFifthAttempt ==
    [][\A t \in Tasks :
          (Finishes(t) /\ plan[t] = MaxAttempts - 1 /\ tries[t] >= 1
             /\ resp[t] \in Retryable \cup {"ok"} /\ ~dbDown)
          => (Delivered(t) /\ ledger' = SaveFeedItem(ledger, FeedItem(t)))]_vars

\* C9: when no request of an item's send succeeded, the poll finishes the
\* item without a ledger write.
C9_NoWriteAfterFailedSend ==
    [][\A t \in Tasks : (Finishes(t) /\ ~Delivered(t)) => ledger' = ledger]_vars

\* C9 witness: an item's only request has failed, the database is up and the
\* item has no row.
C9_Witness ==
    \E t \in Tasks :
        /\ pc[t] = "save"
        /\ tries[t] >= 1
        /\ resp[t] \in Failures
        /\ ~dbDown
        /\ ~Conflicts(ledger, FeedItem(t))

\* C10: a send that returned after a malformed-input response made exactly one
\* request; a send that returned after a transport error or a non-2xx status
\* had retried, using all its attempts.
C10_PermanentVersusRetryable ==
    \A t \in Tasks :
        (pc[t] = "save" /\ tries[t] >= 1) =>
            /\ resp[t] \in Malformed => tries[t] = 1
            /\ resp[t] \in Retryable => tries[t] = MaxAttempts

\* Main's call of Stop returns in this step.
StopReturns == at["main"] = "wait" /\ at'["main"] = "stopped"

\* A goroutine that was started and has not returned.
Alive(g) == at[g] \in {"select", "tick"}

\* The cleanup goroutine was started and has not returned.
SweeperAlive == sweeper.at \in {"start", "run", "select"}

\* C11: at the moment Stop returns, no ticker goroutine and no cleanup
\* goroutine started before is still running, and no task is inside
\* fetchAndProcessFeed or runCleanup.
C11_StopWaitsForTasks ==
    [][StopReturns =>
          /\ \A g \in GoroutineSet : ~Alive(g)
          /\ ~SweeperAlive
          /\ \A t \in Tasks : pc[t] = "idle"]_vars

\* C11 witness: Stop has returned after two ticker goroutines and the cleanup
\* goroutine, all started before it, exited, a poll having recorded an item.
C11_Witness ==
    /\ at["main"] = "stopped"
    /\ at["g1"] = "exited"
    /\ at["g2"] = "exited"
    /\ sweeper.at = "exited"
    /\ ledger # {}

\* The web handler's call of RefreshConfiguration returns in this step, Start
\* having armed every feed.
RefreshReturns == at["web"] = "arm" /\ todo["web"] = << >> /\ at'["web"] = "out"

\* C12: when RefreshConfiguration returns (and the scheduler has not been
\* stopped), the ticker goroutines still alive are exactly as many as the
\* feeds of the configuration: none of an earlier Start is left.
C12_RefreshTearsDownOldTasks ==
    [][(RefreshReturns /\ ~cancelled)
          => Cardinality({ g \in GoroutineSet : Alive(g) }) = Len(config)]_vars

\* The configured feeds with the URL of a row.
Sources(row) == { k \in 1 .. Len(config) : config[k].FeedUrl = row.feed_url }

\* C13: a row leaves the ledger only if the feed it belongs to has
\* FeedRetentionDays > 0 and the row is older than that many days, whatever
\* the retention of the other feeds.
C13_RetentionPerSource ==
    [][\A row \in ledger \ ledger' :
          \E k \in Sources(row) :
              /\ config[k].FeedRetentionDays > 0
              /\ row.created_at < day - config[k].FeedRetentionDays]_vars

\* This step is a CleanupOldItems(retentionDays) that returns no error.
PurgeWith(retentionDays) ==
    /\ sweeper.at = "run"
    /\ sweeper.todo # << >>
    /\ sweeper'.todo = Tail(sweeper.todo)
    /\ Purges(Head(sweeper.todo))
    /\ Head(sweeper.todo).FeedRetentionDays = retentionDays
    /\ ~dbDown

\* C14: a purge with retentionDays = d removes every row created d + 1 days
\* ago or earlier, keeps every row created d - 1 days ago or later, and keeps
\* the row created exactly d days ago: it removes the rows with created_at
\* strictly before today minus d, and no other.
C14_PurgeBoundary ==
    [][\A d \in 1 .. MaxDay :
          PurgeWith(d) =>
              /\ \A r \in ledger : r.created_at <= day - (d + 1) => r \notin ledger'
              /\ \A r \in ledger : r.created_at >= day - (d - 1) => r \in ledger'
              /\ \A r \in ledger : r.created_at = day - d => r \in ledger'
              /\ ledger' \subseteq ledger]_vars

\* The feed runCleanup visited last.
JustSwept == config[Len(config) - Len(sweeper.todo)]

\* C14 witness: the purge for the feed just visited removed a row and left a
\* row that is one day younger than that feed's retention.
C14_Witness ==
    /\ sweeper.at = "run"
    /\ Len(sweeper.todo) < Len(config)
    /\ Purges(JustSwept)
    /\ sweeper.rowsAffected >= 1
    /\ \E r \in ledger : r.created_at = day - (JustSwept.FeedRetentionDays - 1)

\* The call of Start by c ends in a panic in this step.
Panics(c) ==
    /\ at[c] = "arm"
    /\ todo[c] # << >>
    /\ NewTickerPanics(Head(todo[c]))
    /\ at'[c] # "arm"

\* C15: the process never dies and no call of Start panics, whatever
\* configuration was loaded or posted; a ticker goroutine whose poll has
\* returned, with or without an error, goes back to its select; and a ticker
\* goroutine ends only when the context is cancelled.
C15_NoErrorIsFatal ==
    [][/\ ~crashed'
       /\ \A c \in Callers : ~Panics(c)
       /\ \A g \in GoroutineSet :
            /\ (at[g] = "tick" /\ pc[g] \in {"nil", "err"} /\ pc'[g] = "idle")
                   => at'[g] = "select"
            /\ (Alive(g) /\ at'[g] \notin {"select", "tick"}) => cancelled]_vars

\* Caller c is in Start's loop of initial fetches with the poll of a feed not
\* yet returned.
InInitialPoll(c) == at[c] = "fetch" /\ pc[c] \notin {"nil", "err"}

\* Some ticker goroutine polls the URL or can still be woken by its ticker.
Served(url) ==
    \E g \in GoroutineSet :
        /\ Alive(g)
        /\ feed[g].FeedUrl = url
        /\ (at[g] = "tick" \/ pending[g] \/ ticker[g] = "live")

\* C16: while the initial poll of one feed has not returned, every other
\* configured feed has a ticker goroutine that polls it, and no call of Stop
\* or Start (RefreshConfiguration) waits for the lock the polling caller holds.
C16_SlowSourceDelaysOnlyItself ==
    \A c \in Callers :
        InInitialPoll(c) =>
            /\ \A k \in 1 .. Len(config) :
                   config[k].FeedUrl # feed[c].FeedUrl => Served(config[k].FeedUrl)
            /\ \A d \in Callers \ {c} : at[d] \notin {"Start", "Stop"}

\* C17: every feed of a configuration the form handler stores has
\* FeedFetchIntervalMinutes >= 1, and Start starts a ticker goroutine only for
\* such a feed.
C17_IntervalAtLeastOne ==
    [][/\ (at["web"] = "out" /\ config' # config)
              => \A k \in 1 .. Len(config') : config'[k].FeedFetchIntervalMinutes >= 1
       /\ \A g \in GoroutineSet :
              (at[g] = "unborn" /\ at'[g] = "select")
                  => feed'[g].FeedFetchIntervalMinutes >= 1]_vars

\* C18: the text SendTelegramMessage marshals is at most maxMessageLength
\* long, and is the text it was called with if that was within the maximum.
C18_TransmittedWithinMaximum ==
    [][(msg.at = "entry" /\ msg'.at = "marshal") =>
          /\ msg'.Text.len <= maxMessageLength
          /\ msg.Text.len <= maxMessageLength => msg'.Text = msg.Text]_vars

\* C19: fetchAndProcessFeed returns an error only from its fetch, before it
\* has looked up, sent or written anything, and that step changes nothing:
\* the ledger, the requests made and the locals of the task are as before.
C19_FetchFailureChangesNothing ==
    [][\A t \in Tasks :
          (pc[t] # "err" /\ pc'[t] = "err") =>
              /\ pc[t] = "idle"
              /\ ledger' = ledger
              /\ lastAttemptAt' = lastAttemptAt
              /\ failsLeft' = failsLeft
              /\ tries'[t] = 0
              /\ cycle'[t] = << >>
              /\ items'[t] = << >>]_vars

\* C19 witness: a poll has returned the fetch error with rows in the ledger.
C19_Witness == \E t \in Tasks : pc[t] = "err" /\ ledger # {}

\* C20: when the send of an item has failed, the poll goes on to the lookup
\* of the next item of the document if there is one, and otherwise returns
\* nil; it never returns an error after a send.
C20_SendFailureDoesNotEndCycle ==
    [][\A t \in Tasks :
          (Finishes(t) /\ Err(t) # "nil") =>
              IF iter[t] < Len(items[t])
              THEN /\ pc'[t] = "check"
                   /\ iter'[t] = iter[t] + 1
                   /\ items'[t] = items[t]
              ELSE pc'[t] = "nil"]_vars

\* C20 witness: the sender has been invoked for the second item of a poll in
\* which the first item's send failed.
C20_Witness ==
    \E t \in Tasks :
        /\ pc[t] = "save"
        /\ cycle[t] = << 2, 1 >>
        /\ ~cycleOk[t]
        /\ ~IsFeedItemPosted(ledger, items[t][2], Url(t))
        /\ ledger = {}

\* The lookup of task t's item returns in this step.
LooksUp(t) == pc[t] = "check" /\ (pc'[t] # "check" \/ iter'[t] # iter[t])

\* C21: when the lookup of an item fails, the poll neither sends nor writes
\* for it: it goes straight to the lookup of the next item of the document if
\* there is one and otherwise returns nil, the ledger as it was; a poll starts
\* from the whole document again, and an item looked up without a row is sent.
C21_LookupFailureSkipsItem ==
    [][\A t \in Tasks :
          /\ (LooksUp(t) /\ dbDown) =>
                /\ ledger' = ledger
                /\ cycle'[t] = IF iter[t] < Len(items[t]) THEN cycle[t] ELSE << >>
                /\ IF iter[t] < Len(items[t])
                   THEN /\ pc'[t] = "check"
                        /\ iter'[t] = iter[t] + 1
                        /\ items'[t] = items[t]
                   ELSE pc'[t] = "nil"
          /\ (pc[t] = "idle" /\ pc'[t] = "check") =>
                (items'[t] = upstream[Url(t)] /\ iter'[t] = 1)
          /\ (LooksUp(t) /\ ~dbDown /\ ~IsFeedItemPosted(ledger, Guid(t), Url(t))) =>
                pc'[t] = "send"]_vars

\* C21 witness: the lookup of the first item of a document of two has failed,
\* nothing was sent or written for it, and the poll is at the second item.
C21_Witness ==
    \E t \in Tasks :
        /\ pc[t] = "check"
        /\ Len(items[t]) = 2
        /\ iter[t] = 2
        /\ ~cycleOk[t]
        /\ cycle[t] = << >>
        /\ ledger = {}

\* The call of Start by c returns in this step.
StartReturns(c) == at[c] = "arm" /\ todo[c] = << >> /\ at'[c] \notin {"arm", "dead"}

\* The URLs of the configured feeds.
Configured == { config[k].FeedUrl : k \in 1 .. Len(config) }

\* fs.tickers holds a live ticker for each configured URL and nothing else,
\* and no ticker outside fs.tickers is live.
OneLiveTimerPerSource ==
    /\ \A u \in Urls :
          IF u \in Configured
          THEN tickers[u] # "" /\ ticker[tickers[u]] = "live"
          ELSE tickers[u] = ""
    /\ \A g \in GoroutineSet : ticker[g] = "live" => \E u \in Urls : tickers[u] = g

\* C22: while a call of Start is in its loop of initial fetches no ticker is
\* registered or live, and when the call returns fs.tickers holds one live
\* ticker for each feed of the configuration and nothing else.
C22_StartStopsPollsThenArms ==
    [][\A c \in Callers :
          /\ at[c] = "fetch" =>
                (tickers = NoTickers /\ \A g \in GoroutineSet : ticker[g] # "live")
          /\ StartReturns(c) => OneLiveTimerPerSource]_vars

\* The cleanup goroutine takes a step.
Sweeps == sweeper' # sweeper

\* C23: the cleanup goroutine's first step is a run of runCleanup, and so is
\* its step at a tick; a run visits every configured feed; and in the visit of
\* a feed whose FeedRetentionDays is not positive CleanupOldItems is not
\* called: no row is deleted and rowsAffected is not set.
C23_SweepsOnlyPositiveRetention ==
    [][Sweeps =>
          /\ sweeper.at = "start" => (sweeper'.at = "run" /\ sweeper'.todo = config)
          /\ (sweeper.at = "select" /\ ~cancelled) =>
                (sweeper'.at = "run" /\ sweeper'.todo = config)
          /\ (sweeper.at = "run" /\ sweeper.todo # << >>) =>
                /\ sweeper'.at = "run"
                /\ sweeper'.todo = Tail(sweeper.todo)
                /\ Head(sweeper.todo).FeedRetentionDays <= 0 =>
                      (ledger' = ledger /\ sweeper'.rowsAffected = sweeper.rowsAffected)]_vars

\* C23 witness: in a run that deleted a row for a feed kept for a positive
\* number of days, the feed kept for ever has been visited and a row older
\* than today is still there.
C23_Witness ==
    /\ sweeper.at = "run"
    /\ sweeper.todo = << >>
    /\ JustSwept.FeedRetentionDays = 0
    /\ sweeper.rowsAffected >= 1
    /\ \E r \in ledger : r.created_at < day

\* This step is a CleanupOldItems that returns an error.
PurgeFails ==
    /\ sweeper.at = "run"
    /\ sweeper.todo # << >>
    /\ Purges(Head(sweeper.todo))
    /\ dbDown
    /\ Sweeps

\* C24: when CleanupOldItems fails for a feed, runCleanup deletes nothing and
\* goes on to the feeds left; in a run in which a purge has failed, the visit
\* of a later feed with positive retention still purges, and at the end of
\* the run the goroutine goes back to its select.
C24_PurgeFailureDoesNotStopSweep ==
    [][/\ PurgeFails =>
            /\ sweeper'.at = "run"
            /\ sweeper'.todo = Tail(sweeper.todo)
            /\ ledger' = ledger
       /\ \A d \in 1 .. MaxDay :
            (PurgeWith(d) /\ "error" \in Range(sweeper.logged)) =>
                ledger' = CleanupOldItems(ledger, d)
       /\ (sweeper.at = "run" /\ sweeper.todo = << >> /\ Sweeps) =>
            sweeper'.at = "select"]_vars

\* C24 witness: the purge for the first feed failed and the purge for the
\* second feed, run after it, deleted a row.
C24_Witness ==
    /\ sweeper.at = "run"
    /\ sweeper.todo = << >>
    /\ sweeper.logged = << "error", "cleaned" >>
    /\ sweeper.rowsAffected >= 1

\* The rows a poll may build on this day.
NewRows == { Row(guid, url, title) : guid \in Guids, url \in Urls, title \in 1 .. MaxItems }

\* C25: SaveFeedItem applied twice to a row leaves what applying it once
\* leaves; and when a poll that has sent an item saves it while a row of the
\* item's (guid, feed_url) pair is in the ledger, the ledger stays as it is,
\* the row's created_at included, and the save returns no error.
C25_RecordIdempotent ==
    [][/\ \A row \in NewRows :
            SaveFeedItem(SaveFeedItem(ledger, row), row) = SaveFeedItem(ledger, row)
       /\ \A t \in Tasks :
            (Finishes(t) /\ Delivered(t) /\ ~dbDown
               /\ IsFeedItemPosted(ledger, Guid(t), Url(t))) =>
                /\ ledger' = ledger
                /\ IF iter[t] < Len(items[t])
                   THEN cycleOk'[t] = cycleOk[t]
                   ELSE clean'[Url(t)] = cycleOk[t]]_vars

\* C25 witness: two polls of one feed have both sent the same item and saved
\* it without an error, and the ledger holds the pair's row, created on an
\* earlier day.
C25_Witness ==
    \E t, u \in Tasks :
        /\ t # u
        /\ Url(t) = Url(u)
        /\ items[t] = items[u]
        /\ Len(items[t]) = 2
        /\ items[t][1] # items[t][2]
        /\ \A v \in {t, u} : iter[v] = 2 /\ cycle[v] = << 2 >> /\ cycleOk[v]
        /\ \E r \in ledger :
              r.guid = items[t][2] /\ r.feed_url = Url(t) /\ r.created_at < day

\* This step is a CleanupOldItems that returns no error.
Purging ==
    /\ sweeper.at = "run"
    /\ sweeper.todo # << >>
    /\ PurgeWith(Head(sweeper.todo).FeedRetentionDays)

\* C26: a row that is in the ledger is there, unchanged, after every step of
\* a poll, of Start, of Stop and of the configuration handler; a step after
\* which a row is gone is a CleanupOldItems of the cleanup goroutine.
C26_EntriesWriteOnce ==
    [][\/ ledger \subseteq ledger'
       \/ Purging /\ ledger' \subseteq ledger]_vars

\* C26 witness: a row is in the ledger after a RefreshConfiguration that
\* started the third goroutine, a run of the cleanup goroutine, and Stop.
C26_Witness ==
    /\ at["main"] = "stopped"
    /\ at["g3"] = "exited"
    /\ sweeper.at = "exited"
    /\ ledger # {}

\* The select of goroutine g takes the tick in this step: the goroutine goes
\* on to call fetchAndProcessFeed.
BeginsPoll(g) == at[g] = "select" /\ at'[g] = "tick"

\* C27: once the context is cancelled, no ticker goroutine's select takes a
\* tick, not one that is ready together with ctx.Done() either.
C27_CancellationObserved ==
    [][cancelled => \A g \in GoroutineSet : ~BeginsPoll(g)]_vars

\* Goroutine g calls fetchAndProcessFeed in this step.
StartsPoll(g) == at[g] = "tick" /\ pc[g] = "idle" /\ pc'[g] # "idle"

\* No call of Start is under way, the scheduler is not stopped, and fs.tickers
\* is as the latest Start to return left it for the configuration.
EpochSettled ==
    /\ \A c \in Callers : at[c] \notin {"fetch", "arm"}
    /\ ~cancelled
    /\ OneLiveTimerPerSource

\* C28: once Start has returned for a configuration, a poll is started only
\* by a goroutine that Start started: the goroutine registered in fs.tickers
\* for its feed, and not one left from an earlier call with that call's Feed.
C28_SnapshotForOneEpoch ==
    [][\A g \in GoroutineSet :
          (StartsPoll(g) /\ EpochSettled) => tickers[feed[g].FeedUrl] = g]_vars

\* Task t is in SaveFeedItem for an item it has sent.
Recording(t) == pc[t] = "save" /\ Delivered(t)

\* C29: when two tasks are in SaveFeedItem at once, the call that returns
\* first leaves the ledger with every row it had and with exactly one row of
\* the (guid, feed_url) pair it was called for.
C29_ConcurrentRecordsKeepUnion ==
    [][\A t, u \in Tasks :
          (t # u /\ Recording(t) /\ Recording(u) /\ Finishes(t) /\ ~dbDown) =>
              /\ ledger \subseteq ledger'
              /\ Cardinality({ r \in ledger' : r.guid = Guid(t) /\ r.feed_url = Url(t) }) = 1]_vars

\* Every item the feed with this URL serves has its row.
AllRecorded(url) ==
    \A k \in 1 .. Len(upstream[url]) : IsFeedItemPosted(ledger, upstream[url][k], url)

\* C30: if from some time on the endpoint accepts every request and the
\* database answers, every item that stays in a configured feed's document
\* is recorded in the end.
C30_FailedItemIsRetried ==
    <>[](failsLeft = 0 /\ ~dbDown) => <>(\A url \in Urls : AllRecorded(url))

\* The index of the last ". " that lies within the first n bytes of the text,
\* -1 if there is none.
LastBoundaryWithin(text, n) == LastIndex(Prefix(text, n))

\* C31: for a text longer than maxMessageLength, if the last ". " within the
\* first maxMessageLength bytes begins past maxMessageLength / 2 the text
\* marshalled is the text up to and including that full stop, with or
\* without a marker after it; otherwise it is the first maxMessageLength
\* bytes followed by the marker.
C31_CutAtSentenceOrHard ==
    [][(msg.at = "entry" /\ msg'.at = "marshal" /\ msg.Text.len > maxMessageLength) =>
          LET boundary == LastBoundaryWithin(msg.Text, maxMessageLength)
          IN  IF 2 * boundary > maxMessageLength
              THEN msg'.Text \in { Prefix(msg.Text, boundary + 1),
                                   Ellipsis(Prefix(msg.Text, boundary + 1)) }
              ELSE msg'.Text = Ellipsis(Prefix(msg.Text, maxMessageLength))]_vars

\* C31 witness: a text with its only ". " at the midpoint has been cut at
\* maxMessageLength and given the marker.
C31_Witness ==
    /\ msg.at = "marshal"
    /\ msg.Text.ends = { maxMessageLength \div 2 }
    /\ msg.Text.len = Ellipsis(Text(maxMessageLength, {})).len

\* Task t is inside fetchAndProcessFeed, past the fetch.
InPoll(t) == pc[t] \in {"check", "send", "save"}

\* C32: no two tasks are inside fetchAndProcessFeed for the same feed URL at
\* once: not the caller of Start in an initial fetch together with a ticker
\* goroutine started by an earlier call, and not two ticker goroutines.
C32_OnePollPerSource ==
    \A t, u \in Tasks :
        (t # u /\ InPoll(t) /\ InPoll(u)) => Url(t) # Url(u)

\* The sender is invoked for task t's item in this step.
Sends(t) == pc[t] = "send" /\ pc'[t] = "save"

\* C33: when the latest finished poll of a feed left every item of the
\* document recorded (each was found in the ledger, or was sent and written
\* without a failure), the next poll of the feed, the document being the
\* same, sends none of them again, whatever the cleanup goroutine did in
\* between.
C33_RecordedItemNotResent ==
    [][\A t \in Tasks : afterClean[t] => ~Sends(t)]_vars

\* Caller c takes fs.mu in Start in this step.
EntersStart(c) == at[c] = "Start" /\ at'[c] # "Start"

\* The select of goroutine g takes a case in this step.
LeavesSelect(g) == at[g] = "select" /\ at'[g] # "select"

\* C34: the context, once cancelled, stays cancelled through every step,
\* those of Start included; a Start called after the cancellation goes on to
\* the initial fetch of the first configured feed; and the select of a ticker
\* goroutine that waits with the context cancelled and no tick of its
\* ticker delivered takes ctx.Done(): the goroutine exits without calling
\* fetchAndProcessFeed.
C34_CancellationNeverReset ==
    [][/\ cancelled => cancelled'
       /\ \A c \in Callers :
            (cancelled /\ EntersStart(c) /\ config # << >>) =>
                (at'[c] = "fetch" /\ feed'[c] = config[1] /\ pc'[c] = "idle")
       /\ \A g \in GoroutineSet :
            (cancelled /\ LeavesSelect(g) /\ ~pending[g]) =>
                (at'[g] = "exited" /\ pc'[g] = "idle")]_vars

\* C34 witness: after Stop, a call of Start has run its initial poll, which
\* recorded an item, has armed a goroutine and returned, and the goroutine
\* has exited.
C34_Witness ==
    /\ at["main"] = "stopped"
    /\ cancelled
    /\ at["web"] = "out"
    /\ ledger # {}
    /\ at["g2"] = "exited"
    /\ pc["g2"] = "idle"
    /\ ~pending["g2"]

\* The ledger has a row of task t's feed and of its item's GUID that was
\* written for another item of the document.
TwinRecorded(t) ==
    \E r \in ledger : r.guid = Guid(t) /\ r.feed_url = Url(t) /\ r.title # I(t)

C36_FailedWriteMeansResend ==
    [][\A t \in Tasks :
          /\ (Finishes(t) /\ Delivered(t) /\ dbDown) =>
                /\ ledger' = ledger
                /\ ~IsFeedItemPosted(ledger', Guid(t), Url(t))
                /\ IF iter[t] < Len(items[t])
                   THEN /\ pc'[t] = "check"
                        /\ iter'[t] = iter[t] + 1
                        /\ items'[t] = items[t]
                   ELSE pc'[t] = "nil"
          /\ (pc[t] = "idle" /\ pc'[t] \in {"check", "nil"}) =>
                (items'[t] = IF pc'[t] = "check" THEN upstream[Url(t)] ELSE << >>)
          /\ (LooksUp(t) /\ ~dbDown /\ ~IsFeedItemPosted(ledger, Guid(t), Url(t))) =>
                (pc'[t] = "send" /\ iter'[t] = iter[t])]_vars

\* C36 witness: feed A serves one item and feed B, without a token, makes no
\* request; A's item has been delivered, every request being accepted, and
\* A's goroutine, having looked the item up and found no row, is about to
\* send it again.
C36_Witness ==
    /\ Len(upstream["A"]) = 1
    /\ ConfigIncomplete(config[2])
    /\ lastAttemptAt >= 0
    /\ failsLeft = 0
    /\ pc["g1"] = "send"
    /\ ledger = {}

\* C37: a call of Stop returns in the end, every poll and every run of
\* runCleanup under way coming to its end: also a call made while a task is
\* inside a poll, and a call made while Start holds fs.mu for its initial
\* fetches.
C37_StopTerminates == (at["main"] = "Stop") ~> (at["main"] = "stopped")

\* C37 witness: main waits for fs.mu in Stop while the handler's call of
\* Start holds it, inside an initial fetch, and a ticker goroutine is inside
\* a poll.
C37_Witness ==
    /\ at["main"] = "Stop"
    /\ mu = "web"
    /\ at["web"] = "fetch"
    /\ InPoll("web")
    /\ \E g \in GoroutineSet : at[g] = "tick" /\ InPoll(g)

\* C38: when a call of Start returns, every ticker goroutine that is running
\* waits on a ticker that is live and is the one registered in fs.tickers
\* for its feed's URL, also when two entries of the configuration have the
\* same URL.
C38_StartedTaskHasLiveTimer ==
    [][\A c \in Callers :
          StartReturns(c) =>
              \A g \in GoroutineSet :
                  Alive(g) => (ticker[g] = "live" /\ tickers[feed[g].FeedUrl] = g)]_vars

====
